---- MODULE Spec2Model ----
(***************************************************************************)
(* The stopwatch component of src/src/App.tsx as a state machine.          *)
(*                                                                         *)
(* State: the React state of App (time, isRunning, splits, target), the    *)
(* ref lastSplitTime, the render closure held by the keydown listener,     *)
(* the last Date.now() reading, and what an observer of the widget sees:   *)
(* the handler that ran last and the audio plays.                          *)
(*                                                                         *)
(* Strings are sequences of one-character strings, so that padStart,       *)
(* parseInt and the label templates are computed as the code computes      *)
(* them.  Numbers that can be NaN are records [nan, v].                    *)
(***************************************************************************)
EXTENDS Integers, Sequences, FiniteSets, TLC

VARIABLES
    time,           \* useState(0), line 19
    isRunning,      \* useState(false), line 20
    splits,         \* useState<SplitTime[]>([]), line 21
    target,         \* useState<Target>, line 23
    lastSplitTime,  \* useRef(0), line 25: lastSplitTime.current
    kbd,            \* the render closure of the keydown listener, lines 76-90
    now,            \* the last value Date.now() returned, line 112
    plays,          \* audioRef.current.play() calls since the last Reset, line 67
    heldFixed,      \* no tick since the last Reset ran under another target
    splitAt,        \* the elapsed time at which each split was recorded
    lastOp,         \* the handler that ran last
    fired,          \* the targetMs of each play since the last Reset, line 67
    download,       \* the workbook the last handler wrote, lines 122-159
    fmtArg,         \* an argument of formatTime, lines 28-40
    fmtResult,      \* what formatTime returned for it
    statsArg,       \* the splits calculateStats reads, lines 42-55
    statsResult     \* what calculateStats returned for them

vars == <<time, isRunning, splits, target, lastSplitTime, kbd, now, plays,
          heldFixed, splitAt, lastOp, fired, download, fmtArg, fmtResult,
          statsArg, statsResult>>

\* The arguments and results of the pure functions checked on their own.
pureVars == <<fmtArg, fmtResult, statsArg, statsResult>>

----------------------------------------------------------------------------
(* Bounds of the model. *)

\* calculateStats is applied to at most this many splits.
MaxLaps == 3

\* formatTime is applied to the arguments within this distance of a boundary
\* of its fields.
FormatWindow == 15

\* Ticks explored by Spec (the split recorder's machine).
MaxTicks == 3
\* Ticks explored by AlertSpec (engine and target evaluator): one tick past
\* the smallest positive target, one second.
AlertTicks == 101
\* Ticks explored by EditSpec (target edits in mid-run): one tick past the
\* second positive target, two seconds.
EditTicks == 201
\* Splits recorded between two Resets.
MaxSplits == 2
\* Largest Date.now() reading, in milliseconds since the page was loaded.
MaxNow == 1

(* Constants of the program. *)
TickMs == 10
MsPerHundredth == 10
MsPerHour == 3600000
MsPerMinute == 60000
MsPerSecond == 1000
PadLen == 2

----------------------------------------------------------------------------
(* Strings and numbers as JavaScript computes them. *)

DigitChars == <<"0", "1", "2", "3", "4", "5", "6", "7", "8", "9">>

IsDigit(c) == \E i \in 1..10 : DigitChars[i] = c

DigitVal(c) == (CHOOSE i \in 1..10 : DigitChars[i] = c) - 1

RECURSIVE NatToString(_)
NatToString(n) ==
    IF n < 10 THEN <<DigitChars[n + 1]>>
    ELSE NatToString(n \div 10) \o <<DigitChars[(n % 10) + 1]>>

\* Number.prototype.toString of an integer.
ToString10(n) == IF n < 0 THEN <<"-">> \o NatToString(-n) ELSE NatToString(n)

\* String.prototype.padStart(len, c).
RECURSIVE padStart(_, _, _)
padStart(s, len, c) == IF Len(s) >= len THEN s ELSE padStart(<<c>> \o s, len, c)

\* a % b of JavaScript for b > 0: the sign of the dividend.
JsRem(a, b) == IF a >= 0 THEN a % b ELSE -((-a) % b)

\* Math.floor(a / b) for integers a and b > 0, computed from naturals only.
FloorDiv(a, b) ==
    IF a >= 0 THEN a \div b
    ELSE IF (-a) % b = 0 THEN -((-a) \div b) ELSE -((-a) \div b) - 1

NaN == [nan |-> TRUE, v |-> 0]
Num(n) == [nan |-> FALSE, v |-> n]

NumMul(a, k) == IF a.nan THEN NaN ELSE Num(a.v * k)
NumAdd(a, b) == IF a.nan \/ b.nan THEN NaN ELSE Num(a.v + b.v)
\* a > k, k <= a and k < a of JavaScript: false when a is NaN.
NumGt(a, k) == ~a.nan /\ a.v > k
NumLe(a, k) == ~a.nan /\ a.v <= k

RECURSIVE DigitPrefixValue(_, _)
\* The value of the longest prefix of digits of s, after acc.
DigitPrefixValue(s, acc) ==
    IF s = <<>> \/ ~IsDigit(Head(s)) THEN acc
    ELSE DigitPrefixValue(Tail(s), acc * 10 + DigitVal(Head(s)))

RECURSIVE TrimStart(_)
TrimStart(s) == IF s # <<>> /\ Head(s) = " " THEN TrimStart(Tail(s)) ELSE s

\* parseInt(s): leading white space, a sign, then the digits up to the first
\* character that is none; NaN when there is no digit there.
parseInt(s) ==
    LET t == TrimStart(s)
        neg == t # <<>> /\ Head(t) = "-"
        u == IF t # <<>> /\ Head(t) \in {"-", "+"} THEN Tail(t) ELSE t
    IN  IF u = <<>> \/ ~IsDigit(Head(u)) THEN NaN
        ELSE Num((IF neg THEN -1 ELSE 1) * DigitPrefixValue(u, 0))

----------------------------------------------------------------------------
(* formatTime, lines 28-40. *)

formatTimeRounds(ms) ==
    LET hours == FloorDiv(ms, MsPerHour)
        minutes == FloorDiv(JsRem(ms, MsPerHour), MsPerMinute)
        seconds == FloorDiv(JsRem(ms, MsPerMinute), MsPerSecond)
        milliseconds == FloorDiv(2 * JsRem(ms, MsPerSecond) + MsPerHundredth,
                                 2 * MsPerHundredth)
    IN  [hours |-> padStart(ToString10(hours), PadLen, "0"),
         minutes |-> padStart(ToString10(minutes), PadLen, "0"),
         seconds |-> padStart(ToString10(seconds), PadLen, "0"),
         milliseconds |-> padStart(ToString10(milliseconds), PadLen, "0")]

formatTime(ms) ==
    LET hours == FloorDiv(ms, MsPerHour)
        minutes == FloorDiv(JsRem(ms, MsPerHour), MsPerMinute)
        seconds == FloorDiv(JsRem(ms, MsPerMinute), MsPerSecond)
        milliseconds == FloorDiv(JsRem(ms, MsPerSecond), MsPerHundredth)
    IN  [hours |-> padStart(ToString10(hours), PadLen, "0"),
         minutes |-> padStart(ToString10(minutes), PadLen, "0"),
         seconds |-> padStart(ToString10(seconds), PadLen, "0"),
         milliseconds |-> padStart(ToString10(milliseconds), PadLen, "0")]

\* The template `${hours}:${minutes}:${seconds}.${milliseconds}`, lines 108-109.
TimeLabel(f) ==
    f.hours \o <<":">> \o f.minutes \o <<":">> \o f.seconds \o <<".">> \o f.milliseconds

\* formatTime(sum / n) for an integer sum and n > 0, in exact arithmetic:
\* Math.floor(q / k) is the floor of sum / (n * k), and q % k is the
\* remainder of sum by n * k, divided by n.
formatQuotient(sum, n) ==
    LET hours == FloorDiv(sum, n * MsPerHour)
        minutes == FloorDiv(JsRem(sum, n * MsPerHour), n * MsPerMinute)
        seconds == FloorDiv(JsRem(sum, n * MsPerMinute), n * MsPerSecond)
        milliseconds == FloorDiv(JsRem(sum, n * MsPerSecond), n * MsPerHundredth)
    IN  [hours |-> padStart(ToString10(hours), PadLen, "0"),
         minutes |-> padStart(ToString10(minutes), PadLen, "0"),
         seconds |-> padStart(ToString10(seconds), PadLen, "0"),
         milliseconds |-> padStart(ToString10(milliseconds), PadLen, "0")]

----------------------------------------------------------------------------
(* calculateStats, lines 42-55. *)

\* lapTimes.reduce((a, b) => a + b, 0)
RECURSIVE reduceSum(_, _)
reduceSum(lapTimes, acc) ==
    IF lapTimes = <<>> THEN acc
    ELSE reduceSum(Tail(lapTimes), acc + Head(lapTimes))

\* Math.min(...lapTimes) and Math.max(...lapTimes) of a non-empty array.
RECURSIVE MathMin(_)
MathMin(lapTimes) ==
    IF Len(lapTimes) = 1 THEN lapTimes[1]
    ELSE LET m == MathMin(Tail(lapTimes))
         IN  IF Head(lapTimes) < m THEN Head(lapTimes) ELSE m

RECURSIVE MathMax(_)
MathMax(lapTimes) ==
    IF Len(lapTimes) = 1 THEN lapTimes[1]
    ELSE LET m == MathMax(Tail(lapTimes))
         IN  IF Head(lapTimes) > m THEN Head(lapTimes) ELSE m

NullStats == [null |-> TRUE]

\* avgLap (as the sum and the count it is the quotient of), bestLap and
\* worstLap of lines 45-48, for a non-empty array of splits.
lapStatisticsSwapsBest(ss) ==
    LET lapTimes == [i \in 1..Len(ss) |-> ss[i].duration]
    IN  [avgSum |-> reduceSum(lapTimes, 0),
         avgCount |-> Len(lapTimes),
         bestLap |-> MathMax(lapTimes),
         worstLap |-> MathMin(lapTimes)]

lapStatistics(ss) ==
    LET lapTimes == [i \in 1..Len(ss) |-> ss[i].duration]
    IN  [avgSum |-> reduceSum(lapTimes, 0),
         avgCount |-> Len(lapTimes),
         bestLap |-> MathMin(lapTimes),
         worstLap |-> MathMax(lapTimes)]

calculateStats(ss) ==
    IF Len(ss) = 0 THEN NullStats
    ELSE LET st == lapStatistics(ss)
         IN  [null |-> FALSE,
              average |-> formatQuotient(st.avgSum, st.avgCount),
              best |-> formatTime(st.bestLap),
              worst |-> formatTime(st.worstLap)]

----------------------------------------------------------------------------
(* The target evaluator, lines 63-68. *)

\* e.target.value of the three number inputs: the empty string (what a number
\* input reports for text that is no number), "1" and ".5" (a valid
\* floating-point number of HTML that parseInt cannot read).
Str1 == <<"1">>
Str2 == <<"2">>
StrDot5 == <<".", "5">>
TargetEdits ==
    {<<"hours", <<>>>>, <<"hours", StrDot5>>,
     <<"minutes", <<>>>>,
     <<"seconds", <<>>>>, <<"seconds", Str1>>}

\* Edits of the seconds input alone: none, one and two seconds.
SecondsEdits == {<<"seconds", <<>>>>, <<"seconds", Str1>>, <<"seconds", Str2>>}

targetMsOf(t) ==
    NumAdd(NumAdd(NumMul(parseInt(t.hours), MsPerHour),
                  NumMul(parseInt(t.minutes), MsPerMinute)),
           NumMul(parseInt(t.seconds), MsPerSecond))

\* The condition of line 66.
crossesNaive(targetMs, newTime, prevTime) == NumLe(targetMs, newTime)

crossesStrict(targetMs, newTime, prevTime) ==
    /\ NumGt(targetMs, 0)
    /\ ~targetMs.nan /\ newTime > targetMs.v
    /\ NumGt(targetMs, prevTime)

crossesNoPrev(targetMs, newTime, prevTime) ==
    NumGt(targetMs, 0) /\ NumLe(targetMs, newTime)

crosses(targetMs, newTime, prevTime) ==
    NumGt(targetMs, 0) /\ NumLe(targetMs, newTime) /\ NumGt(targetMs, prevTime)

----------------------------------------------------------------------------
(* The machine. *)

ZeroField == <<"0", "0">>

NoFile == [written |-> FALSE]
NotApplied == [done |-> FALSE]

\* The state after App's first render.
MachineInit ==
    /\ time = 0
    /\ isRunning = FALSE
    /\ splits = <<>>
    /\ target = [hours |-> ZeroField, minutes |-> ZeroField, seconds |-> ZeroField]
    /\ lastSplitTime = 0
    /\ kbd = [isRunning |-> FALSE, time |-> 0]
    /\ now = 0
    /\ plays = 0
    /\ heldFixed = TRUE
    /\ splitAt = <<>>
    /\ lastOp = "init"
    /\ fired = <<>>
    /\ download = NoFile

Init ==
    /\ MachineInit
    /\ fmtArg = 0
    /\ fmtResult = NotApplied
    /\ statsArg = <<>>
    /\ statsResult = NotApplied

\* useEffect(..., [isRunning]), lines 76-90: the listener is replaced by one
\* closing over the new render only when isRunning changed.
keyListenerEffect ==
    kbd' = IF isRunning' # isRunning
           THEN [isRunning |-> isRunning', time |-> time']
           ELSE kbd

\* handleStartStop, lines 92-94, run in a render where isRunning is cRunning.
handleStartStopRestarts(cRunning) ==
    /\ isRunning' = ~cRunning
    /\ time' = IF cRunning THEN time ELSE 0
    /\ UNCHANGED <<splits, target, lastSplitTime, now, plays, heldFixed, splitAt,
                   fired>>
    /\ keyListenerEffect

handleStartStop(cRunning) ==
    /\ isRunning' = ~cRunning
    /\ UNCHANGED <<time, splits, target, lastSplitTime, now, plays, heldFixed, splitAt,
                   fired>>
    /\ keyListenerEffect

\* handleReset, lines 96-101.
handleResetKeepsBoundary ==
    /\ isRunning' = FALSE
    /\ time' = 0
    /\ splits' = <<>>
    /\ plays' = 0
    /\ heldFixed' = TRUE
    /\ splitAt' = <<>>
    /\ fired' = <<>>
    /\ UNCHANGED <<target, lastSplitTime, now>>
    /\ keyListenerEffect

handleReset ==
    /\ isRunning' = FALSE
    /\ time' = 0
    /\ splits' = <<>>
    /\ lastSplitTime' = 0
    /\ plays' = 0
    /\ heldFixed' = TRUE
    /\ splitAt' = <<>>
    /\ fired' = <<>>
    /\ UNCHANGED <<target, now>>
    /\ keyListenerEffect

\* handleSplit, lines 103-120, run in a render where isRunning is cRunning and
\* time is cTime; Date.now() returns a value not below its last one.
handleSplitUnguarded(cRunning, cTime) ==
    /\ \E t \in now..MaxNow :
          /\ now' = t
          /\ splits' = Append(splits,
                 [id |-> t,
                  time |-> TimeLabel(formatTime(cTime)),
                  duration |-> cTime - lastSplitTime,
                  lap |-> TimeLabel(formatTime(cTime - lastSplitTime))])
    /\ lastSplitTime' = cTime
    /\ splitAt' = Append(splitAt, time)
    /\ UNCHANGED <<time, isRunning, target, plays, heldFixed, fired>>
    /\ keyListenerEffect

handleSplitPrepends(cRunning, cTime) ==
    IF cRunning
    THEN /\ \E t \in now..MaxNow :
               /\ now' = t
               /\ splits' = <<[id |-> t,
                               time |-> TimeLabel(formatTime(cTime)),
                               duration |-> cTime - lastSplitTime,
                               lap |-> TimeLabel(formatTime(cTime - lastSplitTime))]>>
                            \o splits
         /\ lastSplitTime' = cTime
         /\ splitAt' = Append(splitAt, time)
         /\ UNCHANGED <<time, isRunning, target, plays, heldFixed, fired>>
         /\ keyListenerEffect
    ELSE UNCHANGED <<time, isRunning, splits, target, lastSplitTime, kbd, now,
                     plays, heldFixed, splitAt, fired>>

handleSplitCumulative(cRunning, cTime) ==
    IF cRunning
    THEN /\ \E t \in now..MaxNow :
               /\ now' = t
               /\ splits' = Append(splits,
                      [id |-> t,
                       time |-> TimeLabel(formatTime(cTime)),
                       duration |-> cTime,
                       lap |-> TimeLabel(formatTime(cTime))])
         /\ lastSplitTime' = cTime
         /\ splitAt' = Append(splitAt, time)
         /\ UNCHANGED <<time, isRunning, target, plays, heldFixed, fired>>
         /\ keyListenerEffect
    ELSE UNCHANGED <<time, isRunning, splits, target, lastSplitTime, kbd, now,
                     plays, heldFixed, splitAt, fired>>

handleSplit(cRunning, cTime) ==
    IF cRunning
    THEN /\ \E t \in now..MaxNow :
               /\ now' = t
               /\ splits' = Append(splits,
                      [id |-> t,
                       time |-> TimeLabel(formatTime(cTime)),
                       duration |-> cTime - lastSplitTime,
                       lap |-> TimeLabel(formatTime(cTime - lastSplitTime))])
         /\ lastSplitTime' = cTime
         /\ splitAt' = Append(splitAt, time)
         /\ UNCHANGED <<time, isRunning, target, plays, heldFixed, fired>>
         /\ keyListenerEffect
    ELSE UNCHANGED <<time, isRunning, splits, target, lastSplitTime, kbd, now,
                     plays, heldFixed, splitAt, fired>>

\* The interval callback, lines 60-71; the interval exists while isRunning.
tickUnguarded(maxTicks) ==
    /\ time < maxTicks * TickMs
    /\ time' = time + TickMs
    /\ plays' = IF crosses(targetMsOf(target), time + TickMs, time)
                THEN plays + 1 ELSE plays
    /\ fired' = IF crosses(targetMsOf(target), time + TickMs, time)
                THEN Append(fired, targetMsOf(target).v) ELSE fired
    /\ UNCHANGED <<isRunning, splits, target, lastSplitTime, now, heldFixed, splitAt>>
    /\ keyListenerEffect

tick(maxTicks) ==
    /\ isRunning
    /\ time < maxTicks * TickMs
    /\ time' = time + TickMs
    /\ plays' = IF crosses(targetMsOf(target), time + TickMs, time)
                THEN plays + 1 ELSE plays
    /\ fired' = IF crosses(targetMsOf(target), time + TickMs, time)
                THEN Append(fired, targetMsOf(target).v) ELSE fired
    /\ UNCHANGED <<isRunning, splits, target, lastSplitTime, now, heldFixed, splitAt>>
    /\ keyListenerEffect

\* onChange of a target input, lines 219, 230, 241.
setTargetField(field, value) ==
    /\ target' = [target EXCEPT ![field] = padStart(value, PadLen, "0")]
    /\ heldFixed' = (heldFixed /\ (time = 0 \/ target' = target))
    /\ UNCHANGED <<time, isRunning, splits, lastSplitTime, now, plays, splitAt, fired>>
    /\ keyListenerEffect

(* One action per input of the widget. *)

\* A handler that writes no file and is no application of a pure function.
noOutput == download' = NoFile /\ UNCHANGED pureVars

ClickStartStop ==
    handleStartStop(isRunning) /\ lastOp' = "clickStartStop" /\ noOutput

KeySpace ==
    handleStartStop(kbd.isRunning) /\ lastOp' = "keySpace" /\ noOutput

ClickReset == handleReset /\ lastOp' = "clickReset" /\ noOutput

KeyR == handleReset /\ lastOp' = "keyR" /\ noOutput

ClickSplit ==
    /\ isRunning => Len(splits) < MaxSplits
    /\ handleSplit(isRunning, time)
    /\ lastOp' = "clickSplit"
    /\ noOutput

KeyS ==
    /\ kbd.isRunning => Len(splits) < MaxSplits
    /\ handleSplit(kbd.isRunning, kbd.time)
    /\ lastOp' = "keyS"
    /\ noOutput

Tick(maxTicks) == tick(maxTicks) /\ lastOp' = "tick" /\ noOutput

SetTarget ==
    /\ \E e \in TargetEdits : setTargetField(e[1], e[2])
    /\ lastOp' = "setTarget"
    /\ noOutput

\* `${stats?.average.hours}:...`, lines 133-135: the text "undefined" takes
\* the place of every field when stats is null.
UndefinedStr == <<"u", "n", "d", "e", "f", "i", "n", "e", "d">>

statsLabel(stats, which) ==
    IF stats.null
    THEN UndefinedStr \o <<":">> \o UndefinedStr \o <<":">> \o UndefinedStr
         \o <<".">> \o UndefinedStr
    ELSE TimeLabel(stats[which])

\* wsData of handleExportExcel, lines 127-144; the date text that follows the
\* title (toLocaleString of the wall clock) is left out.
wsDataOf(elapsed, ss) ==
    LET stats == calculateStats(ss)
    IN  << <<"Stopwatch Session - ">>,
           <<>>,
           <<"Total Time", TimeLabel(formatTime(elapsed))>>,
           <<>>,
           <<"Statistics">>,
           <<"Average Lap", statsLabel(stats, "average")>>,
           <<"Best Lap", statsLabel(stats, "best")>>,
           <<"Worst Lap", statsLabel(stats, "worst")>>,
           <<>>,
           <<"Split Times">>,
           <<"Split Number", "Total Time", "Lap Time">> >>
        \o [i \in 1..Len(ss) |-> <<i, ss[i].time, ss[i].lap>>]

\* handleExportExcel, lines 122-159: the workbook holds wsData.
handleExportExcel ==
    /\ download' = [written |-> TRUE, rows |-> wsDataOf(time, splits)]
    /\ UNCHANGED <<time, isRunning, splits, target, lastSplitTime, kbd, now, plays,
                   heldFixed, splitAt, fired>>

\* The export button is rendered when splits.length > 0, line 290.
exportAlwaysAvailable == TRUE

exportAvailable == Len(splits) > 0

Export ==
    /\ exportAvailable
    /\ handleExportExcel
    /\ lastOp' = "export"
    /\ UNCHANGED pureVars

Next ==
    \/ ClickStartStop
    \/ KeySpace
    \/ ClickReset
    \/ KeyR
    \/ ClickSplit
    \/ KeyS
    \/ Tick(MaxTicks)
    \/ SetTarget

Spec == Init /\ [][Next]_vars

\* The engine and the target evaluator alone: the split recorder reads and
\* writes neither time, target nor the audio element.
AlertNext ==
    \/ ClickStartStop
    \/ KeySpace
    \/ ClickReset
    \/ KeyR
    \/ Tick(AlertTicks)
    \/ SetTarget

AlertSpec == Init /\ [][AlertNext]_vars

\* The engine, the split recorder and the exporter: the target is read by
\* the tick alone and is left at 00/00/00.
ExportNext ==
    \/ ClickStartStop
    \/ KeySpace
    \/ ClickReset
    \/ KeyR
    \/ ClickSplit
    \/ KeyS
    \/ Tick(MaxTicks)
    \/ Export

ExportSpec == Init /\ [][ExportNext]_vars

SetTargetSeconds ==
    /\ \E e \in SecondsEdits : setTargetField(e[1], e[2])
    /\ lastOp' = "setTarget"
    /\ noOutput

\* The engine and the target evaluator driven by the buttons, with the
\* seconds of the target edited at any time.
EditNext ==
    \/ ClickStartStop
    \/ ClickReset
    \/ Tick(EditTicks)
    \/ SetTargetSeconds

EditSpec == Init /\ [][EditNext]_vars

\* setInterval(..., 10), lines 60-71: while the interval exists its callback
\* keeps being called, so a tick that stays enabled is taken.
\* The Start/Pause button pressed while stopped.
Start == ~isRunning /\ ClickStartStop

\* Runs that are never paused: started, reset, with the target edited at any
\* time.
LiveNext ==
    \/ Start
    \/ ClickReset
    \/ Tick(AlertTicks)
    \/ SetTarget

LiveSpec == Init /\ [][LiveNext]_vars /\ WF_vars(Tick(AlertTicks))

----------------------------------------------------------------------------
(* formatTime on its own: an argument is drawn, then formatTime is applied. *)

machineVars == <<time, isRunning, splits, target, lastSplitTime, kbd, now, plays,
                 heldFixed, splitAt, lastOp, fired, download>>

\* 0, one second, one minute, one hour and a hundred hours.
FormatBases == {0, MsPerSecond, MsPerMinute, MsPerHour, 100 * MsPerHour}

FormatInputs ==
    {b + d : b \in FormatBases, d \in (-FormatWindow)..FormatWindow} \cap Nat

FormatInit ==
    /\ MachineInit
    /\ fmtArg \in FormatInputs
    /\ fmtResult = NotApplied
    /\ statsArg = <<>>
    /\ statsResult = NotApplied

ApplyFormat ==
    /\ ~fmtResult.done
    /\ fmtResult' = [done |-> TRUE, out |-> formatTime(fmtArg)]
    /\ UNCHANGED <<machineVars, fmtArg, statsArg, statsResult>>

FormatSpec == FormatInit /\ [][ApplyFormat]_vars

----------------------------------------------------------------------------
(* calculateStats on its own: a split sequence is drawn, then it is applied. *)

\* The lap durations of the drawn sequences, multiples of the tick; the S key
\* can record a negative one.
LapValues == {-TickMs, 0, TickMs, 100, 200, 300}

LapLists == UNION {[1..n -> LapValues] : n \in 0..MaxLaps}

\* The splits handleSplit records with these lap durations, lines 111-116.
splitsOfLaps(laps) ==
    [i \in 1..Len(laps) |->
        [id |-> i,
         time |-> TimeLabel(formatTime(reduceSum(SubSeq(laps, 1, i), 0))),
         duration |-> laps[i],
         lap |-> TimeLabel(formatTime(laps[i]))]]

StatsInit ==
    /\ MachineInit
    /\ fmtArg = 0
    /\ fmtResult = NotApplied
    /\ statsArg \in {splitsOfLaps(laps) : laps \in LapLists}
    /\ statsResult = NotApplied

ApplyStats ==
    /\ ~statsResult.done
    /\ statsResult' = [done |-> TRUE, out |-> calculateStats(statsArg)]
    /\ UNCHANGED <<machineVars, fmtArg, fmtResult, statsArg>>

StatsSpec == StatsInit /\ [][ApplyStats]_vars

TypeOK ==
    /\ time \in Nat
    /\ isRunning \in BOOLEAN
    /\ kbd.isRunning = isRunning
    /\ Len(splitAt) = Len(splits)

----------------------------------------------------------------------------
(* The claims. *)

ResetOps == {"clickReset", "keyR"}
SplitOps == {"clickSplit", "keyS"}

\* C1: when the splits were recorded at elapsed times t1 < t2 < ... < tN, the
\* i-th split's duration is ti - t(i-1), with t0 = 0, whichever input (button
\* or S key) recorded it.
C1_LapIsDifferenceOfSplitTimes ==
    (\A i \in 1..(Len(splitAt) - 1) : splitAt[i] < splitAt[i + 1])
    => \A i \in 1..Len(splits) :
          splits[i].duration = splitAt[i] - (IF i = 1 THEN 0 ELSE splitAt[i - 1])

\* C2: a Reset, from any state, leaves time = 0, the stopwatch stopped, no
\* split and lastSplitTime = 0; and no step taken while stopped advances time.
C2_ResetClearsAndFreezes ==
    [][ /\ lastOp' \in ResetOps =>
              /\ time' = 0
              /\ ~isRunning'
              /\ splits' = <<>>
              /\ lastSplitTime' = 0
        /\ ~isRunning => time' <= time ]_vars

\* A Reset by the R key after a split was recorded and the clock had moved.
C2_Witness ==
    /\ lastOp = "keyR"
    /\ now > 0
    /\ kbd = [isRunning |-> FALSE, time |-> 0]

\* C3: no split of the sequence has a negative duration.
C3_LapDurationNonNegative ==
    \A i \in 1..Len(splits) : splits[i].duration >= 0

\* C4: each key has the effect of its button in the current render: Space of
\* handleStartStop, R of handleReset, S of handleSplit (the split is labelled
\* with the current time, lasts time - lastSplitTime and moves lastSplitTime
\* to time).
C4_KeysActLikeButtons ==
    [][ /\ KeySpace => handleStartStop(isRunning)
        /\ KeyR => handleReset
        /\ KeyS => handleSplit(isRunning, time) ]_vars

\* C5: with the target held at one positive value since the last Reset, the
\* audio has played once when time has reached the target and not at all
\* before: it plays on the tick that crosses the target and on no other.
C5_AlertOncePerRun ==
    LET targetMs == targetMsOf(target)
    IN  (heldFixed /\ NumGt(targetMs, 0))
        => plays = (IF time >= targetMs.v THEN 1 ELSE 0)

\* The tick after the crossing tick has run, with pauses or not: one play.
C5_Witness ==
    /\ heldFixed
    /\ NumGt(targetMsOf(target), 0)
    /\ lastOp = "tick"
    /\ time > targetMsOf(target).v
    /\ plays = 1

\* C6: a Split (button or S key) while stopped changes neither splits nor
\* lastSplitTime.
C6_SplitWhileStoppedIsNoOp ==
    [][ (~isRunning /\ lastOp' \in SplitOps)
        => (splits' = splits /\ lastSplitTime' = lastSplitTime) ]_vars

\* A Split by the S key while paused in mid-lap, with a split on record.
C6_Witness ==
    /\ lastOp = "keyS"
    /\ ~isRunning
    /\ Len(splits) > 0
    /\ lastSplitTime < time

\* C7: time is never negative; a tick happens only while running and adds
\* exactly 10, a Reset sets time to 0, every other step leaves it unchanged.
C7_TimeSteps ==
    [][ /\ time >= 0 /\ time' >= 0
        /\ lastOp' = "tick" => (isRunning /\ time' = time + TickMs)
        /\ lastOp' \in ResetOps => time' = 0
        /\ lastOp' \notin (ResetOps \cup {"tick"}) => time' = time
        /\ (~isRunning /\ lastOp' \notin ResetOps) => time' = time ]_vars

\* A tick after a resume: time went on from the value frozen at the pause.
C7_Witness ==
    /\ lastOp = "tick"
    /\ kbd.time > 0
    /\ time = kbd.time + TickMs

\* C8: lastSplitTime <= time in every state, also after splits and Resets.
C8_BoundaryNotAfterTime == lastSplitTime <= time

\* A split by the S key that left the boundary behind the elapsed time, and
\* one by the button that set it to the elapsed time.
C8_Witness ==
    /\ Len(splits) = 2
    /\ lastOp = "keyS"
    /\ lastSplitTime < time
    /\ splits[1].duration > 0

\* C9: while the target is 00/00/00 no tick plays the audio.
C9_ZeroTargetNeverAlerts ==
    [][ ( /\ target.hours = ZeroField
          /\ target.minutes = ZeroField
          /\ target.seconds = ZeroField
          /\ lastOp' = "tick" )
        => plays' = plays ]_vars

\* A tick past one second under the target 00/00/00.
C9_Witness ==
    /\ lastOp = "tick"
    /\ target = [hours |-> ZeroField, minutes |-> ZeroField, seconds |-> ZeroField]
    /\ time >= MsPerSecond
    /\ plays = 0

\* What a field contributes when an unparseable field counts as 0.
fieldContribution(s, unit) == IF parseInt(s).nan THEN 0 ELSE parseInt(s).v * unit

contributionsMs(t) ==
    fieldContribution(t.hours, MsPerHour)
    + fieldContribution(t.minutes, MsPerMinute)
    + fieldContribution(t.seconds, MsPerSecond)

\* C10: a field that parseInt cannot read contributes 0: the threshold is the
\* sum of the other fields' contributions, and with the target held fixed
\* the audio has played once when time has reached that sum.
C10_UnparseableFieldCountsAsZero ==
    /\ targetMsOf(target) = Num(contributionsMs(target))
    /\ (heldFixed /\ contributionsMs(target) > 0 /\ time >= contributionsMs(target))
       => plays = 1

\* The number a field of formatTime's result shows.
fieldValue(s) == parseInt(s).v

\* C11: for every e >= 0, the fields h, m, s, c of formatTime(e) satisfy
\* h*3600000 + m*60000 + s*1000 + c*10 <= e < that sum + 10, with m and s in
\* 0..59 and c in 0..99.
C11_FormatTimeFields ==
    fmtResult.done =>
        LET h == fieldValue(fmtResult.out.hours)
            m == fieldValue(fmtResult.out.minutes)
            sec == fieldValue(fmtResult.out.seconds)
            c == fieldValue(fmtResult.out.milliseconds)
            total == h * 3600000 + m * 60000 + sec * 1000 + c * 10
        IN  /\ total <= fmtArg
            /\ fmtArg < total + 10
            /\ m \in 0..59
            /\ sec \in 0..59
            /\ c \in 0..99

\* formatTime applied past one hour to a value that is no multiple of 10.
C11_Witness ==
    /\ fmtResult.done
    /\ fmtArg > MsPerHour
    /\ fmtArg % 10 = 5

\* The number of milliseconds a result of formatTime shows.
shownMs(f) ==
    fieldValue(f.hours) * 3600000 + fieldValue(f.minutes) * 60000
    + fieldValue(f.seconds) * 1000 + fieldValue(f.milliseconds) * 10

\* C12: calculateStats returns null for no splits; otherwise it computes the
\* arithmetic mean, the least and the greatest of the lap durations, with
\* best <= average <= worst, and returns them formatted: for laps that are
\* not negative its average, best and worst show the mean, the least and the
\* greatest cut to hundredths of a second; [100, 300, 200] gives 200, 100, 300.
C12_StatsAreMeanMinMax ==
    statsResult.done =>
        LET out == statsResult.out
            n == Len(statsArg)
            laps == {statsArg[i].duration : i \in 1..n}
            total == reduceSum([i \in 1..n |-> statsArg[i].duration], 0)
            least == CHOOSE x \in laps : \A y \in laps : x <= y
            greatest == CHOOSE x \in laps : \A y \in laps : x >= y
            st == lapStatistics(statsArg)
        IN  /\ out.null <=> n = 0
            /\ n > 0 =>
                  /\ st.avgSum = total /\ st.avgCount = n
                  /\ st.bestLap = least
                  /\ st.worstLap = greatest
                  /\ st.bestLap * n <= st.avgSum
                  /\ st.avgSum <= st.worstLap * n
            /\ (n > 0 /\ \A x \in laps : x >= 0) =>
                  /\ shownMs(out.average) * n <= total
                  /\ total < (shownMs(out.average) + 10) * n
                  /\ shownMs(out.best) = least
                  /\ shownMs(out.worst) = greatest
                  /\ shownMs(out.best) <= shownMs(out.average)
                  /\ shownMs(out.average) <= shownMs(out.worst)
            /\ (n = 3 /\ statsArg[1].duration = 100 /\ statsArg[2].duration = 300
                      /\ statsArg[3].duration = 200) =>
                  /\ TimeLabel(out.average) = <<"0","0",":","0","0",":","0","0",".","2","0">>
                  /\ TimeLabel(out.best) = <<"0","0",":","0","0",":","0","0",".","1","0">>
                  /\ TimeLabel(out.worst) = <<"0","0",":","0","0",":","0","0",".","3","0">>

\* calculateStats applied to the laps [100, 300, 200].
C12_Witness ==
    /\ statsResult.done
    /\ ~statsResult.out.null
    /\ Len(statsArg) = 3
    /\ statsArg[1].duration = 100
    /\ statsArg[2].duration = 300
    /\ statsArg[3].duration = 200

\* C13: no two splits of the sequence have the same id, also when they are
\* recorded within one millisecond of the wall clock.
C13_SplitIdsDistinct ==
    \A i, j \in 1..Len(splits) : i # j => splits[i].id # splits[j].id

StartStopOps == {"clickStartStop", "keySpace"}

\* C14: a Start/Pause (button or Space) flips isRunning and leaves time, the
\* splits and lastSplitTime unchanged; ticks happen only while running and
\* count on from the time the state holds.
C14_StartPauseFlipsOnly ==
    [][ /\ lastOp' \in StartStopOps =>
              /\ isRunning' = ~isRunning
              /\ time' = time
              /\ splits' = splits
              /\ lastSplitTime' = lastSplitTime
        /\ lastOp' = "tick" => (isRunning /\ isRunning' /\ time' = time + TickMs) ]_vars

\* A resume by the Space key in mid-session, with a split on record.
C14_Witness ==
    /\ lastOp = "keySpace"
    /\ isRunning
    /\ time > 0
    /\ Len(splits) > 0
    /\ lastSplitTime > 0

\* C15: every step but a Reset keeps the recorded splits as they are and in
\* their order; a Split while running appends exactly one record, a Reset
\* removes all, every other step leaves the sequence unchanged.
C15_SplitsAppendOnly ==
    [][ /\ lastOp' \notin ResetOps =>
              /\ Len(splits') >= Len(splits)
              /\ SubSeq(splits', 1, Len(splits)) = splits
        /\ (lastOp' \in SplitOps /\ isRunning) => Len(splits') = Len(splits) + 1
        /\ lastOp' \notin (SplitOps \cup ResetOps) => splits' = splits
        /\ lastOp' \in ResetOps => splits' = <<>> ]_vars

\* A second, different split has just been appended after the first.
C15_Witness ==
    /\ lastOp \in SplitOps
    /\ Len(splits) = 2
    /\ splits[1] # splits[2]
    /\ splits[1].duration > 0

\* C17: the lap durations of the recorded splits add up to lastSplitTime.
C17_LapsSumToBoundary ==
    reduceSum([i \in 1..Len(splits) |-> splits[i].duration], 0) = lastSplitTime

\* Splits by the S key and by the button in one session, one of them with a
\* negative duration.
C17_Witness ==
    /\ Len(splits) = 2
    /\ splits[2].duration < 0
    /\ lastSplitTime < time

\* The rows of wsData above the n split rows.
headRows(rows, n) == SubSeq(rows, 1, Len(rows) - n)

\* The field of calculateStats' result a row of the statistics block shows.
statOfRow(name) ==
    CASE name = "Average Lap" -> "average"
      [] name = "Best Lap" -> "best"
      [] name = "Worst Lap" -> "worst"

\* C16: an export happens only with at least one split on record, so that
\* the three statistics it writes are defined; it changes neither time,
\* isRunning, the splits nor lastSplitTime; and after the head of the sheet
\* it writes one row per split, in order: the 1-based index, the split's
\* cumulative label and its lap label.
C16_ExportRowsAndFrame ==
    [][ lastOp' = "export" =>
          LET rows == download'.rows
              n == Len(splits)
              head == headRows(rows, n)
          IN  /\ n > 0
              /\ <<time, isRunning, splits, lastSplitTime>>'
                   = <<time, isRunning, splits, lastSplitTime>>
              /\ download'.written
              /\ Len(rows) > n
              /\ head[Len(head)] = <<"Split Number", "Total Time", "Lap Time">>
              /\ \A i \in 1..n :
                    rows[Len(head) + i] = <<i, splits[i].time, splits[i].lap>>
              /\ \A k \in 1..Len(head) :
                    (Len(head[k]) = 2 /\ head[k][1] # "Total Time")
                    => /\ Head(head[k][2]) # "u"
                       /\ head[k][2]
                            = TimeLabel(calculateStats(splits)[statOfRow(head[k][1])]) ]_vars

\* An export of two different splits while the stopwatch runs.
C16_Witness ==
    /\ lastOp = "export"
    /\ download.written
    /\ Len(splits) = 2
    /\ splits[1] # splits[2]
    /\ isRunning

Range(f) == {f[i] : i \in DOMAIN f}

\* C18: with the target edited at any time, no targetMs value has played the
\* audio twice since the last Reset, and a tick under a target that is not
\* above the elapsed time plays nothing.
C18_OncePerTargetValue ==
    [][ /\ \A i, j \in 1..Len(fired') : i # j => fired'[i] # fired'[j]
        /\ plays' = Len(fired')
        /\ (lastOp' = "tick" /\ NumLe(targetMsOf(target), time))
           => (plays' = plays /\ fired' = fired) ]_vars

\* The audio has played for one second and for two seconds in one run, and
\* the tick after the second crossing played nothing.
C18_Witness ==
    /\ lastOp = "tick"
    /\ fired = <<MsPerSecond, 2 * MsPerSecond>>
    /\ time > 2 * MsPerSecond

\* The targets of AlertSpec with a positive targetMs.
PositiveTargets ==
    {tv \in [hours : {ZeroField, StrDot5}, minutes : {ZeroField},
             seconds : {ZeroField, <<"0", "1">>}] : NumGt(targetMsOf(tv), 0)}

\* C19: under weak fairness of the tick, from a running state whose target
\* is above the elapsed time, either the stopwatch is paused or reset, or the
\* target is changed, or the time reaches the target and the audio plays
\* for it.
C19_TargetEventuallyAlerts ==
    \A tv \in PositiveTargets :
        (isRunning /\ target = tv /\ NumGt(targetMsOf(tv), time))
        ~> \/ ~isRunning
           \/ target # tv
           \/ (time >= targetMsOf(tv).v /\ targetMsOf(tv).v \in Range(fired))

\* The crossing tick of a run from 0 to one second without a pause.
C19_Witness ==
    /\ lastOp = "tick"
    /\ isRunning
    /\ kbd.time = 0
    /\ heldFixed
    /\ target \in PositiveTargets
    /\ time = targetMsOf(target).v
    /\ fired = <<time>>

====
